---------------------------- MODULE Spec2Model ----------------------------
(***************************************************************************)
(* Portfolio accounting and performance engine of the PMS backend.         *)
(*                                                                         *)
(* The transaction table, the ledger replay (calculateHoldings), the       *)
(* valuation (getPortfolioValueOnDate) and the time-weighted return        *)
(* (calculateTWR) are modelled from services/holdingsCalculator and        *)
(* services/performanceCalculator; the two creation paths of transactions  *)
(* from routes/transactions and the CSV batch import.                      *)
(*                                                                         *)
(* Numbers: JavaScript doubles are modelled as exact rationals <<n, d>>    *)
(* (d > 0, lowest terms) where the code divides, and as integers where it  *)
(* only adds and multiplies integer inputs.  Rounding is not modelled.     *)
(* Dates are whole days (integers); one portfolio is modelled.             *)
(***************************************************************************)
EXTENDS Integers, Sequences, FiniteSets

VARIABLES
    store,          \* the Transaction table, in insertion (id) order
    pc,             \* position of the calculateHoldings call: idle, fold, done
    asOfDate,       \* its asOfDate argument (None when omitted)
    txs,            \* the rows findMany returned to it
    idx,            \* index of the next row of the for-loop
    holdings,       \* its local map symbol -> Holding
    cashBalance,    \* its local cashBalance
    warnings,       \* number of console.warn calls it made
    result,         \* the PortfolioHoldings it returned
    prev,           \* the previous completed call on the same table (history)
    market,         \* the provider's closing price of each symbol on each day
    tpc,            \* position of the calculateTWR call: idle, loop, done
    startDate,      \* its arguments
    endDate,
    externalCashFlows,      \* the rows its query returned
    sortedDates,    \* its boundary dates
    loopI,          \* 1-based value of its for-loop's i
    cumulativeReturnFactor,
    twr,            \* the percentage it returned
    rpc,            \* position of the calculateRiskMetrics call: idle, returns, twr, done
    riskStart,      \* its arguments
    riskEnd,
    dailyReturns,   \* what getPeriodicReturns gave it
    riskMetrics,    \* the record it returned
    portfolio,      \* the Portfolio row with its assigned model, None without row
    ppc,            \* position of a drift or proposal request: idle, valuing, done
    route,          \* which of the two routes was requested
    driftAnalysis,  \* what calculateDrift returned to generateRebalancingProposal
    response,       \* the answer of the route
    priceCache,     \* the module's Map from cache key to price
    lookups,        \* the getPrice calls answered so far, with their answers (history)
    vpc,            \* position of a getPortfolioValueOnDate call: idle, pricing, done
    valueDate,      \* its date argument
    valueHoldings,  \* the holdings it awaited
    valueRest,      \* the symbols its for-loop has still to price
    totalValue,     \* its local totalValue, returned when the loop ends
    valueFirst,     \* index in lookups of the first lookup of the call (history)
    modelPortfolios,        \* the ModelPortfolio table with its assets, in id order
    modelResponse   \* the last answer of POST /api/models, with its request

ledgerVars == <<pc, asOfDate, txs, idx, holdings, cashBalance, warnings, result, prev>>

twrVars == <<tpc, startDate, endDate, externalCashFlows, sortedDates, loopI,
             cumulativeReturnFactor, twr>>

riskVars == <<rpc, riskStart, riskEnd, dailyReturns, riskMetrics>>

rebalanceVars == <<ppc, route, driftAnalysis, response>>

oracleVars == <<priceCache, lookups>>

valueVars == <<vpc, valueDate, valueHoldings, valueRest, totalValue, valueFirst>>

modelVars == <<modelPortfolios, modelResponse>>

vars == <<store, market, portfolio, ledgerVars, twrVars, riskVars, rebalanceVars,
          oracleVars, valueVars, modelVars>>

---------------------------------------------------------------------------
(* Bounds of the model *)

MaxTx == 3

MaxDate == 2

Dates == 1..MaxDate

---------------------------------------------------------------------------
(* Optional values: null / undefined is the empty tuple *)

None == <<>>

Some(v) == <<v>>

---------------------------------------------------------------------------
(* Exact rational arithmetic standing for the doubles of the code *)

Abs(n) == IF n < 0 THEN -n ELSE n

RECURSIVE GCD(_, _)
GCD(a, b) == IF b = 0 THEN a ELSE GCD(b, a % b)

Rat(n, d) ==
    LET g == GCD(Abs(n), Abs(d))
        s == IF d < 0 THEN -1 ELSE 1
    IN  <<(s * n) \div g, (s * d) \div g>>

RInt(n) == <<n, 1>>

RAdd(a, b) == Rat(a[1] * b[2] + b[1] * a[2], a[2] * b[2])

RSub(a, b) == Rat(a[1] * b[2] - b[1] * a[2], a[2] * b[2])

RMul(a, b) == Rat(a[1] * b[1], a[2] * b[2])

RDiv(a, b) == Rat(a[1] * b[2], a[2] * b[1])

RLess(a, b) == a[1] * b[2] < b[1] * a[2]

RAbs(x) == <<Abs(x[1]), x[2]>>

---------------------------------------------------------------------------
(* The Transaction rows *)

TransactionTypes ==
    {"BUY", "SELL", "DIVIDEND", "INTEREST", "CASH_DEPOSIT", "CASH_WITHDRAWAL", "FEES"}

AssetTypes == {"STOCK", "CASH", "FOREX"}

Tx(type, assetType, symbol, quantity, price, amount, date) ==
    [type |-> type, assetType |-> assetType, symbol |-> symbol,
     quantity |-> quantity, price |-> price, amount |-> amount,
     transactionDate |-> date]

---------------------------------------------------------------------------
(* POST /api/transactions: validation and construction of the stored row.  *)
(* A body field that is absent is None ("" for the symbol).  The value is  *)
(* None when the handler answers 400 and creates nothing.                  *)

PostTransactionData(body) ==
    IF body.type = None \/ body.assetType = None \/ body.transactionDate = None
    THEN None
    ELSE IF body.type[1] \notin TransactionTypes \/ body.assetType[1] \notin AssetTypes
    THEN None
    ELSE LET type == body.type[1]
             assetType == body.assetType[1]
             date == body.transactionDate[1]
         IN  CASE type \in {"BUY", "SELL"} ->
                    IF body.symbol = "" \/ body.quantity = None \/ body.price = None
                    THEN None
                    ELSE Some(Tx(type, assetType, body.symbol, body.quantity, body.price,
                                 IF type = "BUY"
                                 THEN -(body.quantity[1] * body.price[1])
                                 ELSE body.quantity[1] * body.price[1],
                                 date))
               [] type = "DIVIDEND" ->
                    IF body.symbol = "" \/ body.amount = None
                    THEN None
                    ELSE Some(Tx(type, assetType, body.symbol, None, None,
                                 body.amount[1], date))
               [] type \in {"INTEREST", "CASH_DEPOSIT"} ->
                    IF body.amount = None \/ assetType # "CASH"
                    THEN None
                    ELSE Some(Tx(type, assetType, "", None, None, body.amount[1], date))
               [] type \in {"CASH_WITHDRAWAL", "FEES"} ->
                    IF body.amount = None \/ assetType # "CASH"
                    THEN None
                    ELSE Some(Tx(type, assetType, "", None, None,
                                 -Abs(body.amount[1]), date))

(* processCsvImport: the rows of one file that pass its checks, converted. *)
(* An empty CSV cell is None ("" for the symbol).                          *)

CsvRowValid(row) ==
    /\ row.date # None /\ row.type # None /\ row.assetType # None /\ row.amount # None
    /\ row.type[1] \in TransactionTypes
    /\ row.assetType[1] \in AssetTypes

CsvRowData(row) ==
    Tx(row.type[1], row.assetType[1], row.symbol, row.quantity, row.price,
       row.amount[1], row.date[1])

RECURSIVE TransactionsToCreate(_)
TransactionsToCreate(rows) ==
    IF rows = <<>> THEN <<>>
    ELSE (IF CsvRowValid(Head(rows)) THEN <<CsvRowData(Head(rows))>> ELSE <<>>)
         \o TransactionsToCreate(Tail(rows))

---------------------------------------------------------------------------
(* calculateHoldings: the fold over the rows *)

(* mutant: the mean of the two prices, not weighted by quantity *)
calculateNewAverageCost_unweighted(currentQuantity, currentAverageCost, buyQuantity, buyPrice) ==
    IF currentQuantity + buyQuantity > 0
    THEN RDiv(RAdd(currentAverageCost, RInt(buyPrice)), RInt(2))
    ELSE RInt(0)

calculateNewAverageCost(currentQuantity, currentAverageCost, buyQuantity, buyPrice) ==
    LET currentTotalCost == RMul(RInt(currentQuantity), currentAverageCost)
        newTotalCost == RAdd(currentTotalCost, RInt(buyQuantity * buyPrice))
        newTotalQuantity == currentQuantity + buyQuantity
    IN  IF newTotalQuantity > 0
        THEN RDiv(newTotalCost, RInt(newTotalQuantity))
        ELSE RInt(0)

(* first switch of the loop body: the cash effect *)
CashEffect(cash, tx) ==
    CASE tx.type = "BUY" ->
            IF tx.quantity # None /\ tx.price # None
            THEN cash - tx.quantity[1] * tx.price[1]
            ELSE cash
      [] tx.type = "SELL" ->
            IF tx.quantity # None /\ tx.price # None
            THEN cash + tx.quantity[1] * tx.price[1]
            ELSE cash
      [] OTHER -> cash + tx.amount

Holding(symbol, assetType, quantity, averageCost, totalCost) ==
    [symbol |-> symbol, assetType |-> assetType, quantity |-> quantity,
     averageCost |-> averageCost, totalCost |-> totalCost]

PutHolding(h, hd) ==
    [s \in DOMAIN h \cup {hd.symbol} |-> IF s = hd.symbol THEN hd ELSE h[s]]

BuyEffect(h, tx) ==
    IF tx.symbol # "" /\ tx.quantity # None /\ tx.price # None
    THEN IF tx.symbol \in DOMAIN h
         THEN LET cur == h[tx.symbol]
                  newAverageCost ==
                      calculateNewAverageCost(cur.quantity, cur.averageCost,
                                              tx.quantity[1], tx.price[1])
              IN  PutHolding(h, Holding(cur.symbol, cur.assetType,
                                        cur.quantity + tx.quantity[1], newAverageCost,
                                        RMul(RInt(cur.quantity + tx.quantity[1]),
                                             newAverageCost)))
         ELSE PutHolding(h, Holding(tx.symbol, tx.assetType, tx.quantity[1],
                                    RInt(tx.price[1]),
                                    RInt(tx.quantity[1] * tx.price[1])))
    ELSE h

(* mutant: the sale also moves the average cost towards the sale price *)
SellEffect_reprice(h, tx) ==
    IF tx.symbol # "" /\ tx.quantity # None /\ tx.symbol \in DOMAIN h
    THEN LET cur == h[tx.symbol]
             newAverageCost == IF tx.price # None THEN RInt(tx.price[1])
                               ELSE cur.averageCost
         IN  PutHolding(h, Holding(cur.symbol, cur.assetType,
                                   cur.quantity - tx.quantity[1], newAverageCost,
                                   RMul(RInt(cur.quantity - tx.quantity[1]),
                                        newAverageCost)))
    ELSE h

(* mutant: the sale leaves totalCost as it was *)
SellEffect_staleCost(h, tx) ==
    IF tx.symbol # "" /\ tx.quantity # None /\ tx.symbol \in DOMAIN h
    THEN LET cur == h[tx.symbol]
         IN  PutHolding(h, Holding(cur.symbol, cur.assetType,
                                   cur.quantity - tx.quantity[1], cur.averageCost,
                                   cur.totalCost))
    ELSE h

SellEffect(h, tx) ==
    IF tx.symbol # "" /\ tx.quantity # None /\ tx.symbol \in DOMAIN h
    THEN LET cur == h[tx.symbol]
         IN  PutHolding(h, Holding(cur.symbol, cur.assetType,
                                   cur.quantity - tx.quantity[1], cur.averageCost,
                                   RMul(RInt(cur.quantity - tx.quantity[1]),
                                        cur.averageCost)))
    ELSE h

(* the else-if branch of SELL: console.warn, nothing else *)
SellWarns(h, tx) ==
    /\ tx.type = "SELL"
    /\ ~(tx.symbol # "" /\ tx.quantity # None /\ tx.symbol \in DOMAIN h)
    /\ tx.symbol # ""

(* second switch of the loop body: the holding effect *)
HoldingEffect(h, tx) ==
    CASE tx.type = "BUY" -> BuyEffect(h, tx)
      [] tx.type = "SELL" -> SellEffect(h, tx)
      [] OTHER -> h

(* h.quantity > 0.000001, for the integer quantities of the model *)
EpsilonDen == 1000000

AboveEpsilon(quantity) == quantity * EpsilonDen > 1

(* mutant: only positions of exactly zero are dropped *)
FinalAssets_nonZero(h) ==
    LET kept == {s \in DOMAIN h : h[s].quantity # 0}
    IN  [s \in kept |-> h[s]]

FinalAssets(h) ==
    LET kept == {s \in DOMAIN h : AboveEpsilon(h[s].quantity)}
    IN  [s \in kept |-> h[s]]

PortfolioHoldings(h, cash) == [assets |-> FinalAssets(h), cashBalance |-> cash]

EmptyHoldings == [s \in {} |-> None]

(* the whole fold as a function of the rows, for the callers that await it *)
RECURSIVE FoldFrom(_, _, _)
FoldFrom(rows, h, cash) ==
    IF rows = <<>> THEN [holdings |-> h, cashBalance |-> cash]
    ELSE FoldFrom(Tail(rows), HoldingEffect(h, Head(rows)), CashEffect(cash, Head(rows)))

Replay(rows) ==
    LET f == FoldFrom(rows, EmptyHoldings, 0)
    IN  PortfolioHoldings(f.holdings, f.cashBalance)

---------------------------------------------------------------------------
(* prisma.transaction.findMany({where: {transactionDate: {lte}},           *)
(*                              orderBy: {transactionDate: 'asc'}})        *)
(* The order of rows with equal transactionDate is not fixed by the query: *)
(* every arrangement with non-decreasing dates is a possible answer.       *)

(* mutant: lt instead of lte *)
Selected_before(table, asOf) ==
    {i \in 1..Len(table) : asOf = None \/ table[i].transactionDate < asOf[1]}

Selected(table, asOf) ==
    {i \in 1..Len(table) : asOf = None \/ table[i].transactionDate <= asOf[1]}

Arrangements(table, ids) ==
    LET n == Cardinality(ids)
    IN  {o \in [1..n -> ids] :
            /\ \A i, j \in 1..n : i # j => o[i] # o[j]
            /\ \A i \in 1..n : i < n =>
                   table[o[i]].transactionDate <= table[o[i + 1]].transactionDate}

FindMany(table, asOf) ==
    {[k \in DOMAIN o |-> table[o[k]]] : o \in Arrangements(table, Selected(table, asOf))}

---------------------------------------------------------------------------
(* State after start-up: an empty table, no call in progress *)

(* new Map(): no key *)
EmptyCache == [key \in {} |-> 0]

NoCall ==
    /\ pc = "idle"
    /\ asOfDate = None
    /\ txs = <<>>
    /\ idx = 0
    /\ holdings = EmptyHoldings
    /\ cashBalance = 0
    /\ warnings = 0
    /\ result = None
    /\ prev = None
    /\ tpc = "idle"
    /\ startDate = 0
    /\ endDate = 0
    /\ externalCashFlows = <<>>
    /\ sortedDates = <<>>
    /\ loopI = 0
    /\ cumulativeReturnFactor = RInt(1)
    /\ twr = None
    /\ rpc = "idle"
    /\ riskStart = 0
    /\ riskEnd = 0
    /\ dailyReturns = <<>>
    /\ riskMetrics = None
    /\ ppc = "idle"
    /\ route = ""
    /\ driftAnalysis = <<>>
    /\ response = None
    /\ priceCache = EmptyCache
    /\ lookups = <<>>
    /\ vpc = "idle"
    /\ valueDate = 0
    /\ valueHoldings = None
    /\ valueRest = {}
    /\ totalValue = 0
    /\ valueFirst = 0
    /\ modelPortfolios = <<>>
    /\ modelResponse = None

DropCall ==
    /\ pc' = "idle"
    /\ asOfDate' = None
    /\ txs' = <<>>
    /\ idx' = 0
    /\ holdings' = EmptyHoldings
    /\ cashBalance' = 0
    /\ warnings' = 0
    /\ result' = None
    /\ prev' = None
    /\ tpc' = "idle"
    /\ startDate' = 0
    /\ endDate' = 0
    /\ externalCashFlows' = <<>>
    /\ sortedDates' = <<>>
    /\ loopI' = 0
    /\ cumulativeReturnFactor' = RInt(1)
    /\ twr' = None
    /\ rpc' = "idle"
    /\ riskStart' = 0
    /\ riskEnd' = 0
    /\ dailyReturns' = <<>>
    /\ riskMetrics' = None
    /\ ppc' = "idle"
    /\ route' = ""
    /\ driftAnalysis' = <<>>
    /\ response' = None
    /\ vpc' = "idle"
    /\ valueDate' = 0
    /\ valueHoldings' = None
    /\ valueRest' = {}
    /\ totalValue' = 0
    /\ valueFirst' = 0

Symbols == {"A", "B"}

(* a Portfolio row as POST /api/portfolios creates it: no model assigned *)
NewPortfolio == Some([modelPortfolio |-> None])

(* closing prices that step from 1 to 2 on day k *)
PricePath(k) == [d \in 0..(MaxDate + 1) |-> IF d < k THEN 1 ELSE 2]

Init ==
    /\ store = <<>>
    /\ portfolio = NewPortfolio
    /\ market = [sym \in Symbols |-> PricePath(0)]
    /\ NoCall

---------------------------------------------------------------------------
(* The two creation paths.  The loop of calculateHoldings has no await, so *)
(* a creation runs before a replay reads the table or after it returned;   *)
(* the frame of a returned call is dropped.                                *)

PostTransaction(body) ==
    /\ pc \in {"idle", "done"}
    /\ tpc \in {"idle", "done"}
    /\ rpc \in {"idle", "done"}
    /\ ppc \in {"idle", "done"}
    /\ vpc \in {"idle", "done"}
    /\ portfolio # None
    /\ Len(store) < MaxTx
    /\ PostTransactionData(body) # None
    /\ store' = Append(store, PostTransactionData(body)[1])
    /\ DropCall
    /\ UNCHANGED <<market, portfolio, oracleVars, modelVars>>

ProcessCsvImport(rows) ==
    /\ pc \in {"idle", "done"}
    /\ tpc \in {"idle", "done"}
    /\ rpc \in {"idle", "done"}
    /\ ppc \in {"idle", "done"}
    /\ vpc \in {"idle", "done"}
    /\ portfolio # None
    /\ TransactionsToCreate(rows) # <<>>
    /\ Len(store) + Len(TransactionsToCreate(rows)) <= MaxTx
    /\ store' = store \o TransactionsToCreate(rows)
    /\ DropCall
    /\ UNCHANGED <<market, portfolio, oracleVars, modelVars>>

---------------------------------------------------------------------------
(* calculateHoldings(portfolioId, asOfDate) *)

(* lines 66-75: the query answers, the locals are initialised *)
CalculateHoldings(asOf) ==
    /\ pc \in {"idle", "done"}
    /\ \E rows \in FindMany(store, asOf) : txs' = rows
    /\ asOfDate' = asOf
    /\ pc' = "fold"
    /\ idx' = 1
    /\ holdings' = EmptyHoldings
    /\ cashBalance' = 0
    /\ warnings' = 0
    /\ result' = None
    /\ prev' = None
    /\ UNCHANGED <<portfolio, rebalanceVars, oracleVars, valueVars, modelVars>>
    /\ UNCHANGED <<store, market, twrVars, riskVars>>

(* the same call made again right after it returned, the table untouched *)
CalculateHoldingsAgain ==
    /\ pc = "done"
    /\ prev = None
    /\ \E rows \in FindMany(store, asOfDate) : txs' = rows
    /\ prev' = Some([asOfDate |-> asOfDate, result |-> result[1]])
    /\ pc' = "fold"
    /\ idx' = 1
    /\ holdings' = EmptyHoldings
    /\ cashBalance' = 0
    /\ warnings' = 0
    /\ result' = None
    /\ UNCHANGED <<portfolio, rebalanceVars, oracleVars, valueVars, modelVars>>
    /\ UNCHANGED <<store, asOfDate, market, twrVars, riskVars>>

(* lines 77-141: one iteration of the for-loop *)
FoldStep ==
    /\ pc = "fold"
    /\ idx <= Len(txs)
    /\ cashBalance' = CashEffect(cashBalance, txs[idx])
    /\ holdings' = HoldingEffect(holdings, txs[idx])
    /\ warnings' = IF SellWarns(holdings, txs[idx]) THEN warnings + 1 ELSE warnings
    /\ idx' = idx + 1
    /\ UNCHANGED <<portfolio, rebalanceVars, oracleVars, valueVars, modelVars>>
    /\ UNCHANGED <<store, pc, asOfDate, txs, result, prev, market, twrVars, riskVars>>

(* lines 143-148: the filter and the return *)
ReturnHoldings ==
    /\ pc = "fold"
    /\ idx > Len(txs)
    /\ result' = Some(PortfolioHoldings(holdings, cashBalance))
    /\ pc' = "done"
    /\ UNCHANGED <<portfolio, rebalanceVars, oracleVars, valueVars, modelVars>>
    /\ UNCHANGED <<store, asOfDate, txs, idx, holdings, cashBalance, warnings, prev,
                   market, twrVars, riskVars>>

---------------------------------------------------------------------------
(* marketDataService.getPrice: the provider's closing price for a stock,   *)
(* 1 for cash and forex, 0 for any other asset type.  The provider answers *)
(* every request with the day's close.                                     *)

fetchEodPrice(symbol, date) == market[symbol][date]

(* mutant: cash is looked up like a stock *)
getPrice_cashFromProvider(symbol, assetType, date) ==
    CASE assetType \in {"STOCK", "CASH"} -> fetchEodPrice(symbol, date)
      [] assetType = "FOREX" -> 1
      [] OTHER -> 0

getPrice(symbol, assetType, date) ==
    CASE assetType = "STOCK" -> fetchEodPrice(symbol, date)
      [] assetType = "CASH" -> 1
      [] assetType = "FOREX" -> 1
      [] OTHER -> 0

(* getPortfolioValueOnDate, for one answer of the replay it awaits *)
RECURSIVE AssetsValue(_, _, _)
AssetsValue(assets, syms, date) ==
    IF syms = {} THEN 0
    ELSE LET s == CHOOSE x \in syms : TRUE
         IN  assets[s].quantity * getPrice(assets[s].symbol, assets[s].assetType, date)
             + AssetsValue(assets, syms \ {s}, date)

ValueOf(h, date) == h.cashBalance + AssetsValue(h.assets, DOMAIN h.assets, date)

(* every value the call can return: one per arrangement the query may give *)
getPortfolioValueOnDate(table, date) ==
    {ValueOf(Replay(rows), date) : rows \in FindMany(table, Some(date))}

---------------------------------------------------------------------------
(* calculateTWR(portfolioId, startDate, endDate) *)

(* mutant: purchases and sales are cash flows too *)
CashFlowTypes_withTrades == TransactionTypes

CashFlowTypes == {"CASH_DEPOSIT", "CASH_WITHDRAWAL", "DIVIDEND", "INTEREST", "FEES"}

SelectedCashFlows(table, start, end) ==
    {k \in 1..Len(table) : /\ table[k].transactionDate >= start
                           /\ table[k].transactionDate <= end
                           /\ table[k].type \in CashFlowTypes}

FindManyCashFlows(table, start, end) ==
    {[k \in DOMAIN o |-> table[o[k]]] :
        o \in Arrangements(table, SelectedCashFlows(table, start, end))}

(* the Set of ISO strings: start, every cash-flow date, end *)
boundaryDates(flows, start, end) ==
    {start, end} \cup {flows[k].transactionDate : k \in DOMAIN flows}

RECURSIVE SortDates(_)
SortDates(S) ==
    IF S = {} THEN <<>>
    ELSE LET m == CHOOSE x \in S : \A y \in S : x <= y
         IN  <<m>> \o SortDates(S \ {m})

(* mutant: the value of the period's first day itself *)
dayBefore_sameDay(periodStart) == periodStart

dayBefore(periodStart) == periodStart - 1

(* mutant: the flows dated on the period's first day are left out *)
cashFlowsOnStartDate_none(flows, periodStart) == 0

RECURSIVE cashFlowsOnStartDate(_, _)
cashFlowsOnStartDate(flows, periodStart) ==
    IF flows = <<>> THEN 0
    ELSE (IF Head(flows).transactionDate = periodStart THEN Head(flows).amount ELSE 0)
         + cashFlowsOnStartDate(Tail(flows), periodStart)

TwrPercent(factor) == RMul(RSub(factor, RInt(1)), RInt(100))

(* a quotient by zero is the only source of Infinity and NaN *)
isFinite(x) == x[2] # 0

(* lines 82-124: the query answers, the boundaries are built; fewer than   *)
(* two boundaries return 0 at once                                         *)
BeginTWR(start, end) ==
    /\ startDate' = start
    /\ endDate' = end
    /\ \E flows \in FindManyCashFlows(store, start, end) :
          /\ externalCashFlows' = flows
          /\ sortedDates' = SortDates(boundaryDates(flows, start, end))
          /\ IF Len(SortDates(boundaryDates(flows, start, end))) < 2
               THEN tpc' = "done" /\ twr' = Some(RInt(0))
               ELSE tpc' = "loop" /\ twr' = None
    /\ loopI' = 1
    /\ cumulativeReturnFactor' = RInt(1)

(* a call from outside, no other computation being in progress *)
CalculateTWR(start, end) ==
    /\ pc \in {"idle", "done"}
    /\ tpc \in {"idle", "done"}
    /\ rpc \in {"idle", "done"}
    /\ BeginTWR(start, end)
    /\ UNCHANGED <<portfolio, rebalanceVars, oracleVars, valueVars, modelVars>>
    /\ UNCHANGED <<store, market, ledgerVars, riskVars>>

(* mutant: a sub-period that starts from zero resets the chain *)
TwrStep_zeroPoisons ==
    /\ tpc = "loop"
    /\ loopI < Len(sortedDates)
    /\ LET periodStart == sortedDates[loopI]
           periodEnd == sortedDates[loopI + 1]
       IN  \E mvBefore \in getPortfolioValueOnDate(store, dayBefore(periodStart)) :
              LET mvStartAdjusted ==
                      mvBefore + cashFlowsOnStartDate(externalCashFlows, periodStart)
              IN  IF mvStartAdjusted = 0
                    THEN cumulativeReturnFactor' = RInt(0)
                    ELSE \E mvEnd \in getPortfolioValueOnDate(store, periodEnd) :
                            cumulativeReturnFactor' =
                                RMul(cumulativeReturnFactor,
                                     RDiv(RInt(mvEnd), RInt(mvStartAdjusted)))
    /\ loopI' = loopI + 1
    /\ UNCHANGED <<portfolio, rebalanceVars, oracleVars, valueVars, modelVars>>
    /\ UNCHANGED <<store, market, ledgerVars, riskVars, tpc, startDate, endDate,
                   externalCashFlows, sortedDates, twr>>

(* lines 127-147: one iteration of the for-loop; the table does not change *)
(* between its two valuations                                              *)
TwrStep ==
    /\ tpc = "loop"
    /\ loopI < Len(sortedDates)
    /\ LET periodStart == sortedDates[loopI]
           periodEnd == sortedDates[loopI + 1]
       IN  \E mvBefore \in getPortfolioValueOnDate(store, dayBefore(periodStart)) :
              LET mvStartAdjusted ==
                      mvBefore + cashFlowsOnStartDate(externalCashFlows, periodStart)
              IN  IF mvStartAdjusted = 0
                    THEN UNCHANGED cumulativeReturnFactor
                    ELSE \E mvEnd \in getPortfolioValueOnDate(store, periodEnd) :
                            cumulativeReturnFactor' =
                                RMul(cumulativeReturnFactor,
                                     RDiv(RInt(mvEnd), RInt(mvStartAdjusted)))
    /\ loopI' = loopI + 1
    /\ UNCHANGED <<portfolio, rebalanceVars, oracleVars, valueVars, modelVars>>
    /\ UNCHANGED <<store, market, ledgerVars, riskVars, tpc, startDate, endDate,
                   externalCashFlows, sortedDates, twr>>

(* lines 149-152: the percentage, 0 in place of a value that is not finite *)
ReturnTWR ==
    /\ tpc = "loop"
    /\ loopI >= Len(sortedDates)
    /\ twr' = Some(IF isFinite(TwrPercent(cumulativeReturnFactor))
                   THEN TwrPercent(cumulativeReturnFactor) ELSE RInt(0))
    /\ tpc' = "done"
    /\ UNCHANGED <<portfolio, rebalanceVars, oracleVars, valueVars, modelVars>>
    /\ UNCHANGED <<store, market, ledgerVars, riskVars, startDate, endDate, externalCashFlows,
                   sortedDates, loopI, cumulativeReturnFactor>>

(* the whole call as a function of the table: every percentage it can      *)
(* return, one chain per answer of its queries                             *)
RECURSIVE ChainFrom(_, _, _, _, _)
ChainFrom(table, flows, dates, k, factor) ==
    IF k >= Len(dates) THEN {factor}
    ELSE UNION
           {LET mvStartAdjusted == mvBefore + cashFlowsOnStartDate(flows, dates[k])
            IN  IF mvStartAdjusted = 0
                  THEN ChainFrom(table, flows, dates, k + 1, factor)
                  ELSE UNION {ChainFrom(table, flows, dates, k + 1,
                                        RMul(factor, RDiv(RInt(mvEnd), RInt(mvStartAdjusted)))) :
                              mvEnd \in getPortfolioValueOnDate(table, dates[k + 1])} :
            mvBefore \in getPortfolioValueOnDate(table, dayBefore(dates[k]))}

calculateTWR(table, start, end) ==
    UNION {LET dates == SortDates(boundaryDates(flows, start, end))
           IN  IF Len(dates) < 2 THEN {RInt(0)}
               ELSE {IF isFinite(TwrPercent(f)) THEN TwrPercent(f) ELSE RInt(0) :
                        f \in ChainFrom(table, flows, dates, 1, RInt(1))} :
           flows \in FindManyCashFlows(table, start, end)}

---------------------------------------------------------------------------
(* getPeriodicReturns and calculateRiskMetrics *)

(* every series the loop of getPeriodicReturns can collect from day d on *)
RECURSIVE getPeriodicReturns(_, _, _)
getPeriodicReturns(table, d, end) ==
    IF d > end THEN {<<>>}
    ELSE {(IF valueYesterday # 0
             THEN <<Rat(valueToday - valueYesterday, valueYesterday)>>
             ELSE <<>>) \o rest :
            valueToday \in getPortfolioValueOnDate(table, d),
            valueYesterday \in getPortfolioValueOnDate(table, d - 1),
            rest \in getPeriodicReturns(table, d + 1, end)}

RECURSIVE SumOf(_)
SumOf(returns) ==
    IF returns = <<>> THEN RInt(0) ELSE RAdd(Head(returns), SumOf(Tail(returns)))

meanReturn(returns) == RDiv(SumOf(returns), RInt(Len(returns)))

variance(returns) ==
    LET m == meanReturn(returns)
        sq == [k \in DOMAIN returns |-> RMul(RSub(returns[k], m), RSub(returns[k], m))]
    IN  RDiv(SumOf(sq), RInt(Len(returns)))

TradingDays == 252

(* Math.sqrt leaves the rationals: the volatility sqrt(variance) * sqrt(252) *)
(* is carried as its square, which is 0 exactly when the volatility is 0.    *)
volatilitySquared(returns) == RMul(variance(returns), RInt(TradingDays))

(* Math.pow leaves the rationals too: a Sharpe ratio that is computed is    *)
(* carried as the operands of (pow(growth, 252 / periods) - 1 - 0.02) /     *)
(* sqrt(volatilitySq); zero marks the literal 0 of the conditional.         *)
SharpeZero == [zero |-> TRUE, growth |-> RInt(1), periods |-> 0, volatilitySq |-> RInt(0)]

(* mutant: the quotient is also taken for a volatility of 0 *)
sharpeRatio_unguarded(returns, totalReturn) ==
    [zero |-> FALSE, growth |-> RAdd(RInt(1), totalReturn),
     periods |-> Len(returns), volatilitySq |-> volatilitySquared(returns)]

sharpeRatio(returns, totalReturn) ==
    IF RLess(RInt(0), volatilitySquared(returns))
      THEN [zero |-> FALSE, growth |-> RAdd(RInt(1), totalReturn),
            periods |-> Len(returns), volatilitySq |-> volatilitySquared(returns)]
      ELSE SharpeZero

(* dailyReturns.map(r => peak *= (1 + r)): the running products, and peak   *)
(* is left at the last of them                                              *)
RECURSIVE cumulativeReturns(_, _)
cumulativeReturns(returns, peak) ==
    IF returns = <<>> THEN <<>>
    ELSE LET c == RMul(peak, RAdd(RInt(1), Head(returns)))
         IN  <<c>> \o cumulativeReturns(Tail(returns), c)

(* a quotient of doubles: Infinity, -Infinity and NaN are <<1, 0>>,         *)
(* <<-1, 0>> and <<0, 0>>, which compare as in the code under RLess         *)
Quotient(a, b) ==
    IF b[1] = 0
      THEN <<(IF a[1] > 0 THEN 1 ELSE IF a[1] < 0 THEN -1 ELSE 0), 0>>
      ELSE RDiv(a, b)

RECURSIVE DrawdownLoop(_, _, _)
DrawdownLoop(cs, peak, maxDrawdown) ==
    IF cs = <<>> THEN maxDrawdown
    ELSE LET drawdown == Quotient(RSub(Head(cs), peak), peak)
         IN  DrawdownLoop(Tail(cs),
                          IF RLess(peak, Head(cs)) THEN Head(cs) ELSE peak,
                          IF RLess(drawdown, maxDrawdown) THEN drawdown ELSE maxDrawdown)

Percent(x) == IF x[2] = 0 THEN x ELSE RMul(x, RInt(100))

maxDrawdown(returns) ==
    LET cs == cumulativeReturns(returns, RInt(1))
        peak == IF cs = <<>> THEN RInt(1) ELSE cs[Len(cs)]
    IN  DrawdownLoop(cs, peak, RInt(0))

(* mutant: a drawdown of -100 percent for the empty series *)
EmptyRiskMetrics_drawdown ==
    [volatilitySq |-> RInt(0), sharpeRatio |-> SharpeZero, maxDrawdown |-> RInt(-100)]

EmptyRiskMetrics ==
    [volatilitySq |-> RInt(0), sharpeRatio |-> SharpeZero, maxDrawdown |-> RInt(0)]

(* lines 42-46: the series is collected; an empty one returns at once *)
CalculateRiskMetrics(start, end) ==
    /\ pc \in {"idle", "done"}
    /\ tpc \in {"idle", "done"}
    /\ rpc \in {"idle", "done"}
    /\ riskStart' = start
    /\ riskEnd' = end
    /\ \E returns \in getPeriodicReturns(store, start, end) :
          /\ dailyReturns' = returns
          /\ IF Len(returns) = 0
               THEN rpc' = "done" /\ riskMetrics' = Some(EmptyRiskMetrics)
               ELSE rpc' = "returns" /\ riskMetrics' = None
    /\ UNCHANGED <<portfolio, rebalanceVars, oracleVars, valueVars, modelVars>>
    /\ UNCHANGED <<store, market, ledgerVars, twrVars>>

(* line 53: calculateTWR is called with the same range *)
RiskCallsTWR ==
    /\ rpc = "returns"
    /\ BeginTWR(riskStart, riskEnd)
    /\ rpc' = "twr"
    /\ UNCHANGED <<portfolio, rebalanceVars, oracleVars, valueVars, modelVars>>
    /\ UNCHANGED <<store, market, ledgerVars, riskStart, riskEnd, dailyReturns, riskMetrics>>

(* lines 48-74, once calculateTWR has returned *)
ReturnRiskMetrics ==
    /\ rpc = "twr"
    /\ tpc = "done"
    /\ riskMetrics' =
          Some([volatilitySq |-> RMul(volatilitySquared(dailyReturns), RInt(10000)),
                sharpeRatio |-> sharpeRatio(dailyReturns, RDiv(twr[1], RInt(100))),
                maxDrawdown |-> Percent(maxDrawdown(dailyReturns))])
    /\ rpc' = "done"
    /\ UNCHANGED <<portfolio, rebalanceVars, oracleVars, valueVars, modelVars>>
    /\ UNCHANGED <<store, market, ledgerVars, twrVars, riskStart, riskEnd, dailyReturns>>

---------------------------------------------------------------------------
(* Portfolios and their target-allocation model *)

ModelAsset(symbol, assetType, targetPercentage) ==
    [symbol |-> symbol, assetType |-> assetType, targetPercentage |-> targetPercentage]

(* POST /api/portfolios *)
CreatePortfolio ==
    /\ portfolio = None
    /\ portfolio' = NewPortfolio
    /\ DropCall
    /\ UNCHANGED <<store, market, oracleVars, modelVars>>

(* PUT /api/portfolios/:id/model, for a model portfolio with these assets *)
AssignModel(assets) ==
    /\ portfolio # None
    /\ ppc \in {"idle", "done"}
    /\ portfolio' = Some([modelPortfolio |-> Some(assets)])
    /\ DropCall
    /\ UNCHANGED <<store, market, oracleVars, modelVars>>

---------------------------------------------------------------------------
(* rebalancingService: calculatePortfolioMarketValue, calculateDrift,      *)
(* generateRebalancingProposal, and the two routes that call them          *)

(* new Date(): requests are made after the last day the table can hold *)
Today == MaxDate + 1

MarketValueOf(h, day) ==
    [totalMarketValue |-> ValueOf(h, day),
     assetValues |-> [sym \in DOMAIN h.assets |->
                         h.assets[sym].quantity
                             * getPrice(h.assets[sym].symbol, h.assets[sym].assetType, day)]]

(* one value per arrangement the replay's query may return *)
calculatePortfolioMarketValue(table, day) ==
    {MarketValueOf(Replay(rows), day) : rows \in FindMany(table, None)}

(* assetValues[modelAsset.symbol] || 0 *)
currentValueOf(assetValues, symbol) ==
    IF symbol \in DOMAIN assetValues THEN assetValues[symbol] ELSE 0

currentWeightOf(currentValue, totalMarketValue) ==
    IF totalMarketValue > 0 THEN Rat(currentValue, totalMarketValue) ELSE RInt(0)

DriftEntry(modelAsset, mv) ==
    LET currentValue == currentValueOf(mv.assetValues, modelAsset.symbol)
        currentWeight == currentWeightOf(currentValue, mv.totalMarketValue)
    IN  [symbol |-> modelAsset.symbol,
         currentValue |-> currentValue,
         currentWeight |-> currentWeight,
         targetWeight |-> modelAsset.targetPercentage,
         drift |-> RSub(currentWeight, modelAsset.targetPercentage)]

DriftEntries(modelAssets, mv) ==
    [k \in DOMAIN modelAssets |-> DriftEntry(modelAssets[k], mv)]

(* lines 53-55: the message of the Error thrown, None when none is thrown *)
calculateDriftThrows(p) ==
    IF p = None \/ p[1].modelPortfolio = None
      THEN Some("Portfolio or its assigned model not found.")
      ELSE None

(* mutant: every model asset is listed, also with a negligible trade *)
TradeThreshold_none == RInt(-1)

TradeThreshold == Rat(1, 100)

(* mutant: the trade is the whole target value *)
Trade_targetOnly(asset, totalMarketValue) ==
    LET tradeValue == RMul(RInt(totalMarketValue), asset.targetWeight)
    IN  [symbol |-> asset.symbol,
         action |-> IF RLess(RInt(0), tradeValue) THEN "BUY" ELSE "SELL",
         tradeValue |-> RAbs(tradeValue)]

Trade(asset, totalMarketValue) ==
    LET targetValue == RMul(RInt(totalMarketValue), asset.targetWeight)
        tradeValue == RSub(targetValue, RInt(asset.currentValue))
    IN  [symbol |-> asset.symbol,
         action |-> IF RLess(RInt(0), tradeValue) THEN "BUY" ELSE "SELL",
         tradeValue |-> RAbs(tradeValue)]

RECURSIVE FilterTrades(_)
FilterTrades(trades) ==
    IF trades = <<>> THEN <<>>
    ELSE (IF RLess(TradeThreshold, Head(trades).tradeValue) THEN <<Head(trades)>> ELSE <<>>)
         \o FilterTrades(Tail(trades))

rebalancingTrades(drift, totalMarketValue) ==
    FilterTrades([k \in DOMAIN drift |-> Trade(drift[k], totalMarketValue)])

ErrorResponse(prefix, message) == [status |-> 500, error |-> <<prefix, message>>]

OkResponse(body) == [status |-> 200, body |-> body]

NoRequest ==
    /\ pc \in {"idle", "done"}
    /\ tpc \in {"idle", "done"}
    /\ rpc \in {"idle", "done"}
    /\ ppc \in {"idle", "done"}

(* GET /api/portfolios/:id/drift *)
GetDrift ==
    /\ NoRequest
    /\ route' = "drift"
    /\ ppc' = "done"
    /\ driftAnalysis' = <<>>
    /\ IF calculateDriftThrows(portfolio) # None
         THEN response' = Some(ErrorResponse("Failed to calculate drift: ",
                                             calculateDriftThrows(portfolio)[1]))
         ELSE \E mv \in calculatePortfolioMarketValue(store, Today) :
                 response' =
                     Some(OkResponse(DriftEntries(portfolio[1].modelPortfolio[1], mv)))
    /\ UNCHANGED <<modelVars, oracleVars, valueVars, store, market, portfolio, ledgerVars, twrVars, riskVars>>

(* POST /api/portfolios/:id/rebalance-proposal, up to the return of        *)
(* calculateDrift                                                          *)
PostRebalanceProposal ==
    /\ NoRequest
    /\ route' = "rebalance-proposal"
    /\ IF calculateDriftThrows(portfolio) # None
         THEN /\ response' = Some(ErrorResponse("Failed to generate rebalancing proposal: ",
                                                calculateDriftThrows(portfolio)[1]))
              /\ ppc' = "done"
              /\ driftAnalysis' = <<>>
         ELSE /\ \E mv \in calculatePortfolioMarketValue(store, Today) :
                     driftAnalysis' = DriftEntries(portfolio[1].modelPortfolio[1], mv)
              /\ ppc' = "valuing"
              /\ response' = None
    /\ UNCHANGED <<modelVars, oracleVars, valueVars, store, market, portfolio, ledgerVars, twrVars, riskVars>>

(* POST /api/transactions served while generateRebalancingProposal awaits  *)
(* between its two valuations: the row is stored, the proposal goes on     *)
PostTransactionMeanwhile(body) ==
    /\ ppc = "valuing"
    /\ Len(store) < MaxTx
    /\ PostTransactionData(body) # None
    /\ store' = Append(store, PostTransactionData(body)[1])
    /\ UNCHANGED <<market, portfolio, ledgerVars, twrVars, riskVars, rebalanceVars,
                   oracleVars, valueVars, modelVars>>

(* lines 80-99: the second valuation, the trades, the answer *)
ReturnProposal ==
    /\ ppc = "valuing"
    /\ \E mv \in calculatePortfolioMarketValue(store, Today) :
          response' =
              Some(OkResponse(
                  [totalMarketValue |-> mv.totalMarketValue,
                   driftAnalysis |-> driftAnalysis,
                   rebalancingTrades |->
                       rebalancingTrades(driftAnalysis, mv.totalMarketValue)]))
    /\ ppc' = "done"
    /\ UNCHANGED <<modelVars, oracleVars, valueVars, store, market, portfolio, ledgerVars, twrVars, riskVars,
                   route, driftAnalysis>>

---------------------------------------------------------------------------
(* POST /api/models.  A body field that is absent is None ("" for the     *)
(* name); assets that are not an array are None.                           *)

MaxModels == 2

RECURSIVE totalPercentage(_)
totalPercentage(assets) ==
    IF assets = <<>> THEN RInt(0)
    ELSE RAdd(totalPercentage(SubSeq(assets, 1, Len(assets) - 1)),
              assets[Len(assets)].targetPercentage)

(* mutant: the sum is not looked at *)
SumOutsideTolerance_never(assets) == FALSE

(* Math.abs(totalPercentage - 1.0) > 0.001 *)
SumOutsideTolerance(assets) ==
    RLess(Rat(1, 1000), RAbs(RSub(totalPercentage(assets), RInt(1))))

(* lines 37-45: the status of the early return, None when the handler goes *)
(* on to create the model                                                  *)
PostModelRejects(body) ==
    IF body.name = "" \/ body.assets = None \/ Len(body.assets[1]) = 0
      THEN Some(400)
    ELSE IF SumOutsideTolerance(body.assets[1])
      THEN Some(400)
    ELSE None

ModelPortfolioRow(body) == [name |-> body.name, assets |-> body.assets[1]]

(* prisma.modelPortfolio.create either stores the row or throws, and the   *)
(* catch block answers 400                                                 *)
PostModel(body) ==
    /\ NoRequest
    /\ vpc \in {"idle", "done"}
    /\ IF PostModelRejects(body) # None
         THEN /\ modelResponse' = Some([status |-> PostModelRejects(body)[1], request |-> body])
              /\ UNCHANGED modelPortfolios
         ELSE \/ /\ Len(modelPortfolios) < MaxModels
                 /\ modelPortfolios' = Append(modelPortfolios, ModelPortfolioRow(body))
                 /\ modelResponse' = Some([status |-> 201, request |-> body])
              \/ /\ modelResponse' = Some([status |-> 400, request |-> body])
                 /\ UNCHANGED modelPortfolios
    /\ UNCHANGED <<store, market, portfolio, ledgerVars, twrVars, riskVars,
                   rebalanceVars, oracleVars, valueVars>>

---------------------------------------------------------------------------
(* marketDataService, call by call: the price cache and the answers of the *)
(* provider other than the day's close.  The provider has data for the     *)
(* days in the domain of market[symbol]; any request to it may throw.      *)

MaxLookups == 3

(* `${symbol}:${dateString}` *)
cacheKey(symbol, date) == <<symbol, date>>

(* what awaiting yahooFinance.historical can give: an exception, or the    *)
(* rows of the day (none on a day without data)                            *)
historical(symbol, date) ==
    {[threw |-> TRUE, result |-> <<>>],
     [threw |-> FALSE,
      result |-> IF symbol \in DOMAIN market /\ date \in DOMAIN market[symbol]
                 THEN <<[close |-> market[symbol][date]]>>
                 ELSE <<>>]}

CachePut(cache, key, price) ==
    [k \in DOMAIN cache \cup {key} |-> IF k = key THEN price ELSE cache[k]]

(* fetchEodPrice for one answer of the provider: the price returned, the   *)
(* cache afterwards, and the branch that returned                          *)
fetchEodPriceCall(cache, symbol, date, answer) ==
    IF cacheKey(symbol, date) \in DOMAIN cache
      THEN [price |-> cache[cacheKey(symbol, date)], priceCache |-> cache,
            source |-> "cache"]
    ELSE IF answer.threw
      THEN [price |-> 0, priceCache |-> cache, source |-> "error"]
    ELSE IF Len(answer.result) = 0
      THEN [price |-> 0, priceCache |-> cache, source |-> "empty"]
    ELSE [price |-> answer.result[1].close,
          priceCache |-> CachePut(cache, cacheKey(symbol, date), answer.result[1].close),
          source |-> "close"]

getPriceCall(cache, symbol, assetType, date, answer) ==
    CASE assetType = "STOCK" -> fetchEodPriceCall(cache, symbol, date, answer)
      [] assetType = "CASH" -> [price |-> 1, priceCache |-> cache, source |-> "fixed"]
      [] assetType = "FOREX" -> [price |-> 1, priceCache |-> cache, source |-> "fixed"]
      [] OTHER -> [price |-> 0, priceCache |-> cache, source |-> "fixed"]

Lookup(symbol, assetType, date, r) ==
    [symbol |-> symbol, assetType |-> assetType, date |-> date,
     source |-> r.source, price |-> r.price]

(* one call of marketDataService.getPrice *)
GetPrice(symbol, assetType, date) ==
    /\ NoRequest
    /\ vpc \in {"idle", "done"}
    /\ Len(lookups) < MaxLookups
    /\ \E answer \in historical(symbol, date) :
          LET r == getPriceCall(priceCache, symbol, assetType, date, answer)
          IN  /\ priceCache' = r.priceCache
              /\ lookups' = Append(lookups, Lookup(symbol, assetType, date, r))
    /\ UNCHANGED <<modelVars, store, market, portfolio, ledgerVars, twrVars, riskVars,
                   rebalanceVars, valueVars>>

(* getPortfolioValueOnDate, lines 13-14: the holdings are awaited *)
BeginValuation(date) ==
    /\ NoRequest
    /\ vpc \in {"idle", "done"}
    /\ \E rows \in FindMany(store, Some(date)) :
          /\ valueHoldings' = Some(Replay(rows))
          /\ totalValue' = Replay(rows).cashBalance
          /\ valueRest' = DOMAIN Replay(rows).assets
    /\ valueDate' = date
    /\ valueFirst' = Len(lookups) + 1
    /\ vpc' = "pricing"
    /\ UNCHANGED <<modelVars, store, market, portfolio, ledgerVars, twrVars, riskVars,
                   rebalanceVars, oracleVars>>

(* lines 15-18: one iteration of the for-loop *)
PriceNextAsset ==
    /\ vpc = "pricing"
    /\ valueRest # {}
    /\ Len(lookups) < MaxLookups
    /\ \E sym \in valueRest :
       LET asset == valueHoldings[1].assets[sym]
       IN  /\ \E answer \in historical(asset.symbol, valueDate) :
                 LET r == getPriceCall(priceCache, asset.symbol, asset.assetType,
                                       valueDate, answer)
                 IN  /\ priceCache' = r.priceCache
                     /\ lookups' = Append(lookups, Lookup(asset.symbol, asset.assetType,
                                                          valueDate, r))
                     /\ totalValue' = totalValue + asset.quantity * r.price
           /\ valueRest' = valueRest \ {sym}
    /\ UNCHANGED <<modelVars, store, market, portfolio, ledgerVars, twrVars, riskVars,
                   rebalanceVars, vpc, valueDate, valueHoldings, valueFirst>>

(* line 19: totalValue is returned *)
ReturnValuation ==
    /\ vpc = "pricing"
    /\ valueRest = {}
    /\ vpc' = "done"
    /\ UNCHANGED <<modelVars, store, market, portfolio, ledgerVars, twrVars, riskVars,
                   rebalanceVars, oracleVars, valueDate, valueHoldings, valueRest,
                   totalValue, valueFirst>>

---------------------------------------------------------------------------
(* Requests of the ledger specification *)

Body(type, assetType, symbol, quantity, price, amount, date) ==
    [type |-> Some(type), assetType |-> Some(assetType), symbol |-> symbol,
     quantity |-> quantity, price |-> price, amount |-> amount,
     transactionDate |-> Some(date)]

CsvRow(date, type, symbol, assetType, quantity, price, amount) ==
    [date |-> Some(date), type |-> Some(type), symbol |-> symbol,
     assetType |-> Some(assetType), quantity |-> quantity, price |-> price,
     amount |-> Some(amount)]

NoAmountRow ==
    [date |-> Some(1), type |-> Some("FEES"), symbol |-> "", assetType |-> Some("CASH"),
     quantity |-> None, price |-> None, amount |-> None]

LedgerBodies ==
    UNION {{Body("BUY", "STOCK", "A", Some(2), Some(1), None, d),
            Body("SELL", "STOCK", "A", Some(2), Some(2), None, d)} : d \in Dates}
    \cup {Body("CASH_DEPOSIT", "CASH", "", None, None, Some(5), MaxDate)}

LedgerFiles ==
    {<<NoAmountRow, CsvRow(1, "BUY", "B", "STOCK", Some(1), Some(3), -4)>>}

AsOfDates == {None} \cup {Some(d) : d \in 1..(MaxDate - 1)}

NextIdem ==
    \/ \E body \in LedgerBodies : PostTransaction(body)
    \/ \E rows \in LedgerFiles : ProcessCsvImport(rows)
    \/ \E asOf \in AsOfDates : CalculateHoldings(asOf)
    \/ CalculateHoldingsAgain
    \/ FoldStep
    \/ ReturnHoldings

SpecIdem == Init /\ [][NextIdem]_vars

NextLedger ==
    \/ \E body \in LedgerBodies : PostTransaction(body)
    \/ \E rows \in LedgerFiles : ProcessCsvImport(rows)
    \/ \E asOf \in AsOfDates : CalculateHoldings(asOf)
    \/ FoldStep
    \/ ReturnHoldings

SpecLedger == Init /\ [][NextLedger]_vars

(* Requests of the BUY-only specification: purchases of one symbol at      *)
(* different prices, one of them with a negative quantity (the handler     *)
(* accepts any number).                                                    *)

BuyBodies ==
    UNION {{Body("BUY", "STOCK", "A", Some(2), Some(1), None, d),
            Body("BUY", "STOCK", "A", Some(1), Some(4), None, d)} : d \in Dates}
    \cup {Body("BUY", "STOCK", "A", Some(-2), Some(3), None, 1)}

NextBuys ==
    \/ \E body \in BuyBodies : PostTransaction(body)
    \/ \E asOf \in AsOfDates : CalculateHoldings(asOf)
    \/ FoldStep
    \/ ReturnHoldings

SpecBuys == Init /\ [][NextBuys]_vars

(* Requests of the performance specification: deposits on every day from  *)
(* the day before the first period on, one withdrawal, one purchase; the   *)
(* market follows one of the price paths.                                  *)

TwrBodies ==
    {Body("CASH_DEPOSIT", "CASH", "", None, None, Some(2), d) : d \in 0..MaxDate}
    \cup {Body("CASH_WITHDRAWAL", "CASH", "", None, None, Some(1), MaxDate),
          Body("BUY", "STOCK", "A", Some(1), Some(1), None, 0)}

TwrRanges == {r \in Dates \X (1..(MaxDate + 1)) : r[1] <= r[2]}

InitTwr ==
    /\ store = <<>>
    /\ portfolio = NewPortfolio
    /\ \E k \in 0..(MaxDate + 2) : market = [sym \in Symbols |-> PricePath(k)]
    /\ NoCall

NextTwr ==
    \/ \E body \in TwrBodies : PostTransaction(body)
    \/ \E r \in TwrRanges : CalculateTWR(r[1], r[2])
    \/ TwrStep
    \/ ReturnTWR

SpecTwr == InitTwr /\ [][NextTwr]_vars

(* The table and the prices of performanceCalculator.test.ts: a deposit    *)
(* and a purchase on 1 January (day 1), a purchase on 15 January (day 15), *)
(* a sale on 1 February (day 32); the close is 115 up to day 14, 125 up to *)
(* day 31 and 130 afterwards.  The test's SELL row carries quantity -30;   *)
(* the same row with quantity 30 is the other table.                       *)

MaxRefDay == 50

ReferenceTable(sellQuantity) ==
    << Tx("CASH_DEPOSIT", "CASH", "USD", None, None, 15500, 1),
       Tx("BUY", "STOCK", "2330.TW", Some(100), Some(100), -10000, 1),
       Tx("BUY", "STOCK", "2330.TW", Some(50), Some(110), -5500, 15),
       Tx("SELL", "STOCK", "2330.TW", Some(sellQuantity), Some(120), 3600, 32) >>

ReferencePrice(d) == IF d <= 14 THEN 115 ELSE IF d <= 31 THEN 125 ELSE 130

ReferenceMarket == [sym \in {"2330.TW"} |-> [d \in 0..MaxRefDay |-> ReferencePrice(d)]]

InitReference ==
    /\ \E q \in {30, -30} : store = ReferenceTable(q)
    /\ market = ReferenceMarket
    /\ portfolio = NewPortfolio
    /\ NoCall

NextReference ==
    \/ \E end \in 32..MaxRefDay : CalculateTWR(1, end)
    \/ TwrStep
    \/ ReturnTWR

SpecReference == InitReference /\ [][NextReference]_vars

(* Requests of the risk specification: deposits and withdrawals move the   *)
(* daily values; a range may be empty (start after end).                   *)

RiskBodies ==
    {Body("CASH_DEPOSIT", "CASH", "", None, None, Some(2), d) : d \in {0, 1, MaxDate}}
    \cup {Body("CASH_WITHDRAWAL", "CASH", "", None, None, Some(1), 1)}

RiskRanges == Dates \X (1..(MaxDate + 1))

NextRisk ==
    \/ \E body \in RiskBodies : PostTransaction(body)
    \/ \E r \in RiskRanges : CalculateRiskMetrics(r[1], r[2])
    \/ RiskCallsTWR
    \/ TwrStep
    \/ ReturnTWR
    \/ ReturnRiskMetrics

SpecRisk == Init /\ [][NextRisk]_vars

(* Requests of the rebalancing specification: a deposit and purchases of   *)
(* two stocks, which trade at one price; models that sum to 1.             *)

RebalanceBodies ==
    {Body("CASH_DEPOSIT", "CASH", "", None, None, Some(1000), 1),
     Body("BUY", "STOCK", "A", Some(7), Some(100), None, 1),
     Body("BUY", "STOCK", "B", Some(3), Some(100), None, 1)}

Models ==
    {<<ModelAsset("A", "STOCK", Rat(6, 10)), ModelAsset("B", "STOCK", Rat(4, 10))>>,
     <<ModelAsset("A", "STOCK", Rat(7, 10)), ModelAsset("B", "STOCK", Rat(3, 10))>>,
     <<ModelAsset("A", "STOCK", Rat(69999, 100000)),
       ModelAsset("B", "STOCK", Rat(30001, 100000))>>}

InitRebalance ==
    /\ store = <<>>
    /\ portfolio = None
    /\ \E p \in {50, 100, 200} :
          market = [sym \in Symbols |-> [d \in 0..(MaxDate + 1) |-> p]]
    /\ NoCall

NextRebalance ==
    \/ CreatePortfolio
    \/ \E assets \in Models : AssignModel(assets)
    \/ \E body \in RebalanceBodies : PostTransaction(body)
    \/ GetDrift
    \/ PostRebalanceProposal
    \/ ReturnProposal

SpecRebalance == InitRebalance /\ [][NextRebalance]_vars

(* Requests of the valuation specification: next to a deposit and a stock, *)
(* a cash-class asset is bought under a symbol the provider quotes.        *)

ValuationBodies ==
    {Body("CASH_DEPOSIT", "CASH", "", None, None, Some(2), 0),
     Body("CASH_DEPOSIT", "CASH", "", None, None, Some(2), MaxDate),
     Body("BUY", "STOCK", "A", Some(1), Some(1), None, 0),
     Body("BUY", "CASH", "B", Some(3), Some(1), None, 0)}

NextValuation ==
    \/ \E body \in ValuationBodies : PostTransaction(body)
    \/ \E r \in TwrRanges : CalculateTWR(r[1], r[2])
    \/ TwrStep
    \/ ReturnTWR

SpecValuation == InitTwr /\ [][NextValuation]_vars

(* Requests of the oracle specification: two stocks and a deposit; the     *)
(* provider has closes for the days before MaxDate and none from MaxDate   *)
(* on; prices are asked for one symbol as a stock and as cash.             *)

OracleBodies ==
    {Body("CASH_DEPOSIT", "CASH", "", None, None, Some(2), 0),
     Body("BUY", "STOCK", "A", Some(1), Some(1), None, 0),
     Body("BUY", "STOCK", "B", Some(1), Some(1), None, 1)}

OracleMarket == [sym \in Symbols |-> [d \in 0..(MaxDate - 1) |-> d + 2]]

InitOracle ==
    /\ store = <<>>
    /\ portfolio = NewPortfolio
    /\ market = OracleMarket
    /\ NoCall

NextOracle ==
    \/ \E body \in OracleBodies : PostTransaction(body)
    \/ \E assetType \in {"STOCK", "CASH"}, d \in Dates : GetPrice("A", assetType, d)
    \/ \E d \in Dates : BeginValuation(d)
    \/ PriceNextAsset
    \/ ReturnValuation

SpecOracle == InitOracle /\ [][NextOracle]_vars

(* Requests of the model specification: bodies without name, without      *)
(* assets, with an empty list, and with one or two assets whose            *)
(* percentages sum to 1, to either edge of the tolerance, or beyond it.    *)

Percentages == {RInt(1), Rat(1, 2), Rat(499, 1000), Rat(501, 1000), Rat(502, 1000)}

AssetLists ==
    {<<ModelAsset("A", "STOCK", p)>> : p \in {RInt(1), Rat(1, 2)}}
    \cup {<<ModelAsset("A", "STOCK", Rat(1, 2)), ModelAsset("B", "STOCK", q)>> :
              q \in Percentages \ {RInt(1)}}
    \cup {<<ModelAsset("A", "STOCK", Rat(499, 1000)),
            ModelAsset("B", "STOCK", Rat(499, 1000))>>}

ModelBodies ==
    {[name |-> n, assets |-> a] :
        n \in {"", "Growth"}, a \in {None, Some(<<>>)} \cup {Some(l) : l \in AssetLists}}

NextModels ==
    \/ \E body \in ModelBodies : PostModel(body)
    \/ \E k \in DOMAIN modelPortfolios : AssignModel(modelPortfolios[k].assets)

SpecModels == Init /\ [][NextModels]_vars

(* Requests of the creation specification: amounts of either sign through *)
(* both creation paths, a purchase of a negative quantity, and file rows   *)
(* of a purchase with a positive amount and of a sale without quantity.    *)

CreationBodies ==
    {Body("CASH_DEPOSIT", "CASH", "", None, None, Some(a), 1) : a \in {5, -5}}
    \cup {Body("CASH_WITHDRAWAL", "CASH", "", None, None, Some(a), 1) : a \in {5, -5}}
    \cup {Body("BUY", "STOCK", "A", Some(q), Some(3), None, 1) : q \in {2, -2}}
    \cup {Body("SELL", "STOCK", "", Some(1), Some(3), None, 1)}

CreationFiles ==
    {<<CsvRow(1, "BUY", "B", "STOCK", Some(1), Some(3), a)>> : a \in {-3, 3}}
    \cup {<<CsvRow(1, "SELL", "B", "STOCK", None, Some(3), 3), NoAmountRow>>}

NextCreation ==
    \/ \E body \in CreationBodies : PostTransaction(body)
    \/ \E rows \in CreationFiles : ProcessCsvImport(rows)

SpecCreation == Init /\ [][NextCreation]_vars

(* Requests of the boundary specification: one row of every transaction   *)
(* type, the trades and two of the flows dated on the last day a table can *)
(* hold, which lies inside the longest range.                              *)

BoundaryBodies ==
    {Body("CASH_DEPOSIT", "CASH", "", None, None, Some(2), 1),
     Body("CASH_WITHDRAWAL", "CASH", "", None, None, Some(1), 1),
     Body("DIVIDEND", "STOCK", "A", None, None, Some(1), 1),
     Body("INTEREST", "CASH", "", None, None, Some(1), MaxDate),
     Body("FEES", "CASH", "", None, None, Some(1), MaxDate),
     Body("BUY", "STOCK", "A", Some(1), Some(1), None, MaxDate),
     Body("SELL", "STOCK", "A", Some(1), Some(1), None, MaxDate)}

NextBoundaries ==
    \/ \E body \in BoundaryBodies : PostTransaction(body)
    \/ \E r \in TwrRanges : CalculateTWR(r[1], r[2])
    \/ TwrStep
    \/ ReturnTWR

SpecBoundaries == Init /\ [][NextBoundaries]_vars

(* Requests of the zero-flow specification: a funded portfolio that holds *)
(* a stock, and deposits of amount 0 on any day; the market follows one of *)
(* the price paths.                                                        *)

ZeroFlowBodies ==
    {Body("CASH_DEPOSIT", "CASH", "", None, None, Some(2), 0),
     Body("BUY", "STOCK", "A", Some(1), Some(1), None, 0)}
    \cup {Body("CASH_DEPOSIT", "CASH", "", None, None, Some(0), d) : d \in Dates}

NextZeroFlow ==
    \/ \E body \in ZeroFlowBodies : PostTransaction(body)
    \/ \E r \in TwrRanges : CalculateTWR(r[1], r[2])
    \/ TwrStep
    \/ ReturnTWR

SpecZeroFlow == InitTwr /\ [][NextZeroFlow]_vars

(* Requests of the proposal specification: those of the rebalancing       *)
(* specification, and transactions posted while a proposal is computed.    *)

NextProposal ==
    \/ CreatePortfolio
    \/ \E assets \in Models : AssignModel(assets)
    \/ \E body \in RebalanceBodies : PostTransaction(body)
    \/ \E body \in RebalanceBodies : PostTransactionMeanwhile(body)
    \/ GetDrift
    \/ PostRebalanceProposal
    \/ ReturnProposal

SpecProposal == InitRebalance /\ [][NextProposal]_vars

(* Requests of the signed-sum specification: the transactions of the      *)
(* rebalancing specification, and models that name one of the two stocks   *)
(* or both, so that a held stock can lie outside the model.                *)

SumModels ==
    {<<ModelAsset("A", "STOCK", RInt(1))>>,
     <<ModelAsset("B", "STOCK", RInt(1))>>,
     <<ModelAsset("A", "STOCK", Rat(6, 10)), ModelAsset("B", "STOCK", Rat(4, 10))>>}

NextSignedSum ==
    \/ CreatePortfolio
    \/ \E assets \in SumModels : AssignModel(assets)
    \/ \E body \in RebalanceBodies : PostTransaction(body)
    \/ PostRebalanceProposal
    \/ ReturnProposal

SpecSignedSum == InitRebalance /\ [][NextSignedSum]_vars

---------------------------------------------------------------------------
(* Properties of the ledger replay *)

RECURSIVE SumAmounts(_)
SumAmounts(rows) ==
    IF rows = <<>> THEN 0 ELSE Head(rows).amount + SumAmounts(Tail(rows))

RECURSIVE SumQuantity(_)
SumQuantity(rows) ==
    IF rows = <<>> THEN 0 ELSE Head(rows).quantity[1] + SumQuantity(Tail(rows))

RECURSIVE SumCost(_)
SumCost(rows) ==
    IF rows = <<>> THEN 0
    ELSE Head(rows).quantity[1] * Head(rows).price[1] + SumCost(Tail(rows))

Rows(rows) == {rows[k] : k \in DOMAIN rows}

OnlyBuysOf(rows, sym) ==
    /\ rows # <<>>
    /\ \A tx \in Rows(rows) :
           tx.type = "BUY" /\ tx.symbol = sym /\ tx.quantity # None /\ tx.price # None

(* C1: the cashBalance a replay returns is the sum of the amount fields of *)
(* the rows it replayed, for every transaction kind.                       *)
C1_CashConservation ==
    pc = "done" => result[1].cashBalance = SumAmounts(txs)

SellOfHeld ==
    /\ pc = "fold" /\ idx <= Len(txs)
    /\ txs[idx].type = "SELL" /\ txs[idx].quantity # None
    /\ txs[idx].symbol \in DOMAIN holdings

SellOfUnheld ==
    /\ pc = "fold" /\ idx <= Len(txs)
    /\ txs[idx].type = "SELL" /\ txs[idx].quantity # None
    /\ txs[idx].symbol # "" /\ txs[idx].symbol \notin DOMAIN holdings

(* C3: a SELL of a held symbol lowers that holding's quantity by the sold  *)
(* quantity, keeps its averageCost and changes no other holding.           *)
C3_SellReducesQuantityOnly ==
    [][SellOfHeld =>
          LET sym == txs[idx].symbol
          IN  /\ DOMAIN holdings' = DOMAIN holdings
              /\ holdings'[sym].quantity = holdings[sym].quantity - txs[idx].quantity[1]
              /\ holdings'[sym].averageCost = holdings[sym].averageCost
              /\ \A s \in DOMAIN holdings \ {sym} : holdings'[s] = holdings[s]]_vars

C3_Witness ==
    /\ pc = "fold" /\ idx > 1
    /\ txs[idx - 1].type = "SELL"
    /\ txs[idx - 1].symbol \in DOMAIN holdings
    /\ holdings[txs[idx - 1].symbol].averageCost # RInt(txs[idx - 1].price[1])
    /\ \E s \in DOMAIN holdings : s # txs[idx - 1].symbol

(* C4: a SELL of a symbol without holding is only warned about, the replay *)
(* goes on, and the sell takes the symbol's quantity from zero to minus    *)
(* the sold quantity in the folded state.                                  *)
C4_SellOfUnheldGoesNegative ==
    [][SellOfUnheld =>
          /\ pc' = "fold" /\ idx' = idx + 1
          /\ warnings' = warnings + 1
          /\ txs[idx].symbol \in DOMAIN holdings'
          /\ holdings'[txs[idx].symbol].quantity = -txs[idx].quantity[1]]_vars

(* C5: every holding returned has quantity > 1e-6, whatever was replayed.  *)
C5_ReturnedQuantitiesPositive ==
    pc = "done" =>
        /\ \A s \in DOMAIN result[1].assets :
               /\ result[1].assets[s].quantity > 0
               /\ result[1].assets[s].quantity * 1000000 > 1
               /\ result[1].assets[s] = holdings[s]
        /\ \A s \in DOMAIN holdings :
               holdings[s].quantity <= 0 => s \notin DOMAIN result[1].assets

C5_Witness ==
    /\ pc = "done"
    /\ \E s \in DOMAIN holdings : holdings[s].quantity <= 0
    /\ DOMAIN result[1].assets # {}

(* The table as it would be had its rows been inserted in date order *)
RECURSIVE InsertByDate(_, _)
InsertByDate(sorted, tx) ==
    IF sorted = <<>> THEN <<tx>>
    ELSE IF Head(sorted).transactionDate <= tx.transactionDate
         THEN <<Head(sorted)>> \o InsertByDate(Tail(sorted), tx)
         ELSE <<tx>> \o sorted

RECURSIVE Chronological(_)
Chronological(table) ==
    IF table = <<>> THEN <<>>
    ELSE InsertByDate(Chronological(SubSeq(table, 1, Len(table) - 1)), table[Len(table)])

OnOrBefore(table, asOf) ==
    SelectSeq(table, LAMBDA tx : asOf = None \/ tx.transactionDate <= asOf[1])

DateOrders(n) ==
    {o \in [1..n -> 1..n] : \A i, j \in 1..n : i # j => o[i] # o[j]}

(* the states a fold of `rows` in some date order can return *)
FoldsInDateOrder(rows) ==
    {Replay([k \in 1..Len(rows) |-> rows[o[k]]]) :
        o \in {q \in DateOrders(Len(rows)) :
                 \A i \in 1..Len(rows) : i < Len(rows) =>
                     rows[q[i]].transactionDate <= rows[q[i + 1]].transactionDate}}

(* C6: the state returned for asOfDate is a date-ordered fold of exactly   *)
(* the stored rows dated on or before asOfDate, and it is a state the same *)
(* rows inserted in chronological order can yield.                         *)
C6_AsOfConsistency ==
    pc = "done" =>
        /\ Len(txs) = Len(OnOrBefore(store, asOfDate))
        /\ \A tx \in Rows(txs) : asOfDate = None \/ tx.transactionDate <= asOfDate[1]
        /\ result[1] \in FoldsInDateOrder(OnOrBefore(Chronological(store), asOfDate))

C6_Witness ==
    /\ pc = "done"
    /\ asOfDate # None
    /\ \E i \in DOMAIN store : store[i].transactionDate > asOfDate[1]
    /\ \E i, j \in DOMAIN store :
           i < j /\ store[j].transactionDate < store[i].transactionDate
                 /\ store[j].transactionDate <= asOfDate[1]
    /\ DOMAIN result[1].assets # {}

(* C7: every date-sorted arrangement of the same rows folds to the state   *)
(* returned, also when rows of one symbol share a date.                    *)
C7_OrderInvariance ==
    pc = "done" => \A rows \in FindMany(store, asOfDate) : Replay(rows) = result[1]

(* C8: a call repeated on the same table with the same asOfDate returns    *)
(* the state the first call returned.                                      *)
C8_Idempotence ==
    (pc = "done" /\ prev # None) => result[1] = prev[1].result

---------------------------------------------------------------------------
(* Properties of the time-weighted return *)

NoFlowInRange ==
    SelectedCashFlows(store, startDate, endDate) = {}

ChainLink(vEnd, vStart) == TwrPercent(RDiv(RInt(vEnd), RInt(vStart)))

(* C9, as stated: with no external cash flow in [start, end] and           *)
(* start < end, the returned percentage is (V(end) / V(start) - 1) * 100   *)
(* for the portfolio values V on the start and end dates.                  *)
C9_ChainLinkFromStartValue ==
    (tpc = "done" /\ startDate < endDate /\ NoFlowInRange) =>
        \E vStart \in getPortfolioValueOnDate(store, startDate),
           vEnd \in getPortfolioValueOnDate(store, endDate) :
            vStart # 0 => twr[1] = ChainLink(vEnd, vStart)

(* C9, amended: with no external cash flow in [start, end] and             *)
(* start < end, the returned percentage is                                 *)
(* (V(end) / V(start - 1 day) - 1) * 100, and 0 when the value on the day  *)
(* before the start date is 0.                                             *)
C9_ChainLinkFromDayBefore ==
    (tpc = "done" /\ startDate < endDate /\ NoFlowInRange) =>
        \E vBefore \in getPortfolioValueOnDate(store, startDate - 1),
           vEnd \in getPortfolioValueOnDate(store, endDate) :
            twr[1] = IF vBefore = 0 THEN RInt(0) ELSE ChainLink(vEnd, vBefore)

(* a flow-free period over which the value moved away from its non-zero    *)
(* value on the day before, the start date's value being another one       *)
C9_Witness ==
    /\ tpc = "done"
    /\ startDate < endDate
    /\ NoFlowInRange
    /\ \E vBefore \in getPortfolioValueOnDate(store, startDate - 1),
          vStart \in getPortfolioValueOnDate(store, startDate),
          vEnd \in getPortfolioValueOnDate(store, endDate) :
           vBefore # 0 /\ vBefore # vStart /\ vBefore # vEnd
    /\ twr[1] # RInt(0)

ConstantPrices ==
    \A sym \in Symbols : \A d1, d2 \in DOMAIN market[sym] : market[sym][d1] = market[sym][d2]

(* C10: with unit prices constant over [start, end] and a non-zero value   *)
(* before start, the returned percentage is 0 whatever deposits and        *)
(* withdrawals are dated inside the range.                                 *)
C10_CashFlowsNeutral ==
    (/\ tpc = "done"
     /\ ConstantPrices
     /\ \A v \in getPortfolioValueOnDate(store, startDate - 1) : v # 0) =>
        twr[1] = RInt(0)

(* |x - cents/100| <= 1/100 *)
WithinCent(x, cents) ==
    LET diff == RSub(RMul(x, RInt(100)), RInt(cents))
    IN  diff[1] <= diff[2] /\ -diff[1] <= diff[2]

ReferenceCall(sellQuantity) ==
    /\ tpc = "done"
    /\ store = ReferenceTable(sellQuantity)
    /\ startDate = 1 /\ endDate >= 32

(* C11, as stated: for the reference scenario with a SELL of 30 units the  *)
(* return from day 1 to day 32 or later is 27.74 percent within 0.01.      *)
C11_ReferenceIs2774 ==
    ReferenceCall(30) => WithinCent(twr[1], 2774)

(* C11, amended: for the reference scenario with a SELL of 30 units the    *)
(* return from day 1 to day 32 or later is 23.87 percent within 0.01; the  *)
(* 27.74 percent belong to the table whose SELL row has quantity -30.      *)
C11_ReferenceIs2387 ==
    /\ ReferenceCall(30) => WithinCent(twr[1], 2387)
    /\ ReferenceCall(-30) => WithinCent(twr[1], 2774)

C11_Witness ==
    /\ ReferenceCall(30)
    /\ endDate > 32
    /\ twr[1] = Rat(74000, 3100)

(* the adjusted starting values the sub-period beginning at boundary k of a *)
(* call on the current table can see                                        *)
AdjustedStarts(k) ==
    {mvBefore + cashFlowsOnStartDate(externalCashFlows, sortedDates[k]) :
        mvBefore \in getPortfolioValueOnDate(store, dayBefore(sortedDates[k]))}

InSubPeriod == tpc = "loop" /\ loopI < Len(sortedDates)

(* C12: a sub-period whose adjusted starting value is 0 leaves the chained *)
(* factor as it is and the loop goes on; any other sub-period multiplies   *)
(* the factor by mvEnd / mvStartAdjusted; the value returned is finite.    *)
C12_ZeroStartSkipped ==
    /\ [](tpc = "done" => isFinite(twr[1]))
    /\ [][InSubPeriod =>
            /\ tpc' = "loop" /\ loopI' = loopI + 1
            /\ \E adj \in AdjustedStarts(loopI) :
                  IF adj = 0
                    THEN cumulativeReturnFactor' = cumulativeReturnFactor
                    ELSE \E mvEnd \in getPortfolioValueOnDate(store, sortedDates[loopI + 1]) :
                            cumulativeReturnFactor' =
                                RMul(cumulativeReturnFactor, RDiv(RInt(mvEnd), RInt(adj)))]_vars

(* a call whose first sub-period started from zero and whose later         *)
(* sub-period moved the factor                                             *)
C12_Witness ==
    /\ tpc = "done"
    /\ Len(sortedDates) >= 3
    /\ AdjustedStarts(1) = {0}
    /\ twr[1] # RInt(0)

---------------------------------------------------------------------------
(* Properties of the risk metrics *)

NoReturnInRange ==
    \A d \in riskStart..riskEnd : getPortfolioValueOnDate(store, d - 1) = {0}

(* C13: the three metrics are 0 whenever the daily return series is empty, *)
(* which is the case whenever every day of the range has a previous-day    *)
(* value of 0 or the range has no day.                                     *)
C13_EmptySeriesAllZero ==
    rpc = "done" =>
        /\ NoReturnInRange => dailyReturns = <<>>
        /\ dailyReturns = <<>> =>
              /\ riskMetrics[1].volatilitySq = RInt(0)
              /\ riskMetrics[1].sharpeRatio.zero
              /\ riskMetrics[1].maxDrawdown = RInt(0)

(* an empty series over a range that has days, on a table that has rows *)
C13_Witness ==
    /\ rpc = "done"
    /\ riskStart < riskEnd
    /\ store # <<>>
    /\ dailyReturns = <<>>

(* C14: the Sharpe ratio is 0 whenever the volatility of the series is 0.  *)
C14_ZeroVolatilityZeroSharpe ==
    (rpc = "done" /\ riskMetrics[1].volatilitySq = RInt(0)) =>
        riskMetrics[1].sharpeRatio.zero

(* zero volatility of a series that is not empty and whose return is not 0 *)
C14_Witness ==
    /\ rpc = "done"
    /\ dailyReturns # <<>>
    /\ riskMetrics[1].volatilitySq = RInt(0)
    /\ twr[1] # RInt(0)

RMax(a, b) == IF RLess(a, b) THEN b ELSE a

RMin(a, b) == IF RLess(b, a) THEN b ELSE a

(* the minimum over the points of (c_i - peak_i) / peak_i, peak_i being    *)
(* the maximum of 1 and the index up to point i                            *)
RECURSIVE RunningPeakDrawdown(_, _, _)
RunningPeakDrawdown(cs, peak, worst) ==
    IF cs = <<>> THEN worst
    ELSE LET p == RMax(peak, Head(cs))
         IN  RunningPeakDrawdown(Tail(cs), p, RMin(worst, RDiv(RSub(Head(cs), p), p)))

(* C15: the reported maximum drawdown is 100 times the minimum of          *)
(* (c_i - peak_i) / peak_i over the points of the cumulative index, with   *)
(* the peak running from the initial index 1 over the points up to i.      *)
C15_DrawdownFromRunningPeak ==
    (rpc = "done" /\ dailyReturns # <<>>) =>
        riskMetrics[1].maxDrawdown =
            RMul(RunningPeakDrawdown(cumulativeReturns(dailyReturns, RInt(1)),
                                     RInt(1), RInt(0)),
                 RInt(100))

---------------------------------------------------------------------------
(* Properties of drift and rebalancing *)

Answered == ppc = "done" /\ response # None

Unconfigured == portfolio # None /\ portfolio[1].modelPortfolio = None

(* C16: a request for a portfolio that exists without model fails with a   *)
(* condition that differs from the one for a missing portfolio; in both    *)
(* cases the answer carries no drift entry and no trade.                   *)
C16_NotConfiguredDistinct ==
    /\ (Answered /\ (portfolio = None \/ Unconfigured)) => response[1].status = 500
    /\ (Answered /\ Unconfigured) =>
           response[1].error[2] # calculateDriftThrows(None)[1]

(* C17: one entry per model asset, with currentValue the held quantity     *)
(* times the price (0 when not held), currentWeight the quotient by the    *)
(* total market value and 0 when that total is 0, targetWeight the model's *)
(* and drift their difference.                                             *)
C17_DriftEntries ==
    (Answered /\ route = "drift" /\ response[1].status = 200) =>
        LET entries == response[1].body
            assets == portfolio[1].modelPortfolio[1]
        IN  /\ DOMAIN entries = DOMAIN assets
            /\ \E mv \in calculatePortfolioMarketValue(store, Today) :
                  \A k \in DOMAIN assets :
                     LET held == assets[k].symbol \in DOMAIN mv.assetValues
                         value == IF held THEN mv.assetValues[assets[k].symbol] ELSE 0
                     IN  /\ entries[k].symbol = assets[k].symbol
                         /\ entries[k].currentValue = value
                         /\ entries[k].currentWeight =
                                (IF mv.totalMarketValue = 0 THEN RInt(0)
                                 ELSE Rat(value, mv.totalMarketValue))
                         /\ entries[k].targetWeight = assets[k].targetPercentage
                         /\ entries[k].drift =
                                RSub(entries[k].currentWeight, entries[k].targetWeight)

Proposed == Answered /\ route = "rebalance-proposal" /\ response[1].status = 200

Wanted(entry, total) ==
    RSub(RMul(RInt(total), entry.targetWeight), RInt(entry.currentValue))

(* C18: the trades are, in the order of the model assets, those of         *)
(* magnitude |total * targetWeight - currentValue| above 0.01, BUY for a   *)
(* positive and SELL for a negative difference; every trade listed is      *)
(* positive; targets 0.6 / 0.4 with values 700 / 300 give SELL A 100 and   *)
(* BUY B 100.                                                              *)
C18_TradesFromTargets ==
    Proposed =>
        LET body == response[1].body
            d == body.driftAnalysis
            t == body.rebalancingTrades
            total == body.totalMarketValue
            listed == {k \in DOMAIN d : RLess(Rat(1, 100), RAbs(Wanted(d[k], total)))}
        IN  /\ Len(t) = Cardinality(listed)
            /\ \A k \in listed :
                  \E j \in DOMAIN t :
                     /\ j = Cardinality({m \in listed : m <= k})
                     /\ t[j].symbol = d[k].symbol
                     /\ t[j].tradeValue = RAbs(Wanted(d[k], total))
                     /\ t[j].action =
                            (IF RLess(RInt(0), Wanted(d[k], total)) THEN "BUY" ELSE "SELL")
            /\ \A j \in DOMAIN t : RLess(RInt(0), t[j].tradeValue)
            /\ (/\ Len(d) = 2 /\ total = 1000
                /\ d[1].symbol = "A" /\ d[1].targetWeight = Rat(6, 10)
                /\ d[1].currentValue = 700
                /\ d[2].symbol = "B" /\ d[2].targetWeight = Rat(4, 10)
                /\ d[2].currentValue = 300)
               => t = << [symbol |-> "A", action |-> "SELL", tradeValue |-> RInt(100)],
                         [symbol |-> "B", action |-> "BUY", tradeValue |-> RInt(100)] >>

(* the scenario of the example *)
C18_Witness ==
    /\ Proposed
    /\ response[1].body.totalMarketValue = 1000
    /\ Len(response[1].body.rebalancingTrades) = 2
    /\ response[1].body.driftAnalysis[1].drift = Rat(1, 10)

(* C19: when every model asset's current weight equals its target weight,  *)
(* the proposal lists no trade.                                            *)
C19_MatchingPortfolioNoTrades ==
    (Proposed /\ \A k \in DOMAIN response[1].body.driftAnalysis :
                    response[1].body.driftAnalysis[k].currentWeight
                        = response[1].body.driftAnalysis[k].targetWeight)
        => response[1].body.rebalancingTrades = <<>>

(* a matching portfolio that holds both model assets *)
C19_Witness ==
    /\ Proposed
    /\ \A k \in DOMAIN response[1].body.driftAnalysis :
          /\ response[1].body.driftAnalysis[k].drift = RInt(0)
          /\ response[1].body.driftAnalysis[k].currentValue > 0

---------------------------------------------------------------------------
(* Properties of the valuation *)

RECURSIVE SumOver(_, _, _)
SumOver(syms, assets, day) ==
    IF syms = {} THEN 0
    ELSE LET s == CHOOSE x \in syms : TRUE
             unitPrice == IF assets[s].assetType = "CASH" THEN 1
                          ELSE getPrice(assets[s].symbol, assets[s].assetType, day)
         IN  assets[s].quantity * unitPrice + SumOver(syms \ {s}, assets, day)

(* cash plus quantity times price over the replayed holdings, a cash-class *)
(* holding counting 1 per unit                                             *)
Valuations(day) ==
    {Replay(rows).cashBalance
        + SumOver(DOMAIN Replay(rows).assets, Replay(rows).assets, day) :
     rows \in FindMany(store, Some(day))}

(* C20: the values a sub-period of calculateTWR works with are cashBalance *)
(* plus the sum of quantity times oracle price over the replayed holdings, *)
(* the price of a cash-class asset being 1 whatever its symbol and the     *)
(* date.                                                                   *)
C20_ValuationSum ==
    [][InSubPeriod =>
          \E mvBefore \in Valuations(sortedDates[loopI] - 1) :
             LET adj == mvBefore
                        + cashFlowsOnStartDate(externalCashFlows, sortedDates[loopI])
             IN  IF adj = 0
                   THEN cumulativeReturnFactor' = cumulativeReturnFactor
                   ELSE \E mvEnd \in Valuations(sortedDates[loopI + 1]) :
                           cumulativeReturnFactor' =
                               RMul(cumulativeReturnFactor, RDiv(RInt(mvEnd), RInt(adj)))]_vars

(* a return computed over a period in which a cash-class asset is held     *)
(* under a symbol whose provider price is not 1                            *)
C20_Witness ==
    /\ tpc = "done"
    /\ Len(sortedDates) >= 2
    /\ \E k \in DOMAIN store :
          store[k].type = "BUY" /\ store[k].assetType = "CASH"
    /\ \E k \in DOMAIN store :
          store[k].type = "BUY" /\ store[k].assetType = "STOCK"
    /\ market["B"][endDate] = 2
    /\ twr[1] # RInt(0)

---------------------------------------------------------------------------
(* Properties of the price oracle *)

(* the lookups the valuation call made: one per asset it has priced *)
ValuationLookups ==
    LET priced == Cardinality(DOMAIN valueHoldings[1].assets \ valueRest)
    IN  {lookups[k] : k \in valueFirst..(valueFirst + priced - 1)}

(* C21: a valuation during which the provider failed does not return a     *)
(* value: it fails towards its caller instead of pricing the asset at 0.   *)
C21_ProviderFailureSurfaces ==
    vpc = "done" => \A l \in ValuationLookups : l.source # "error"

PriorDataDays(symbol, date) == {d \in DOMAIN market[symbol] : d < date}

MostRecentPrior(symbol, date) ==
    CHOOSE d \in PriorDataDays(symbol, date) :
        \A e \in PriorDataDays(symbol, date) : e <= d

(* C22: a lookup that the provider answers with no data for the date, for  *)
(* a symbol that has data on an earlier date, returns the close of the     *)
(* most recent earlier date with data.                                     *)
C22_PriorPriceOnNoData ==
    \A k \in DOMAIN lookups :
        (lookups[k].source = "empty" /\ PriorDataDays(lookups[k].symbol, lookups[k].date) # {})
            => lookups[k].price =
                   market[lookups[k].symbol][MostRecentPrior(lookups[k].symbol,
                                                             lookups[k].date)]

(* C25: two getPrice calls with the same symbol, asset class and date have *)
(* returned the same price, whatever was looked up in between.             *)
C25_OraclePure ==
    \A i, j \in DOMAIN lookups :
        (/\ lookups[i].symbol = lookups[j].symbol
         /\ lookups[i].assetType = lookups[j].assetType
         /\ lookups[i].date = lookups[j].date)
            => lookups[i].price = lookups[j].price

---------------------------------------------------------------------------
(* Properties of the model portfolios *)

WithinTolerance(assets) ==
    LET diff == RSub(totalPercentage(assets), RInt(1))
    IN  diff[1] * 1000 <= diff[2] /\ -(diff[1] * 1000) <= diff[2]

Malformed(body) == body.name = "" \/ body.assets = None \/ body.assets = Some(<<>>)

(* C23: every stored model has target percentages that sum to 1 within     *)
(* 0.001; a creation request without name, without a non-empty asset list  *)
(* or with a sum outside the tolerance is answered 400 and stores nothing. *)
C23_ModelsSumToOne ==
    /\ [](\A k \in DOMAIN modelPortfolios : WithinTolerance(modelPortfolios[k].assets))
    /\ [](modelResponse # None =>
             ((Malformed(modelResponse[1].request)
               \/ ~WithinTolerance(modelResponse[1].request.assets[1]))
                 => modelResponse[1].status = 400))
    /\ [][(modelResponse' # None /\ modelResponse'[1].status = 400)
             => modelPortfolios' = modelPortfolios]_vars

(* a model at the edge of the tolerance is stored and a later request      *)
(* beyond it has been refused                                              *)
C23_Witness ==
    /\ \E k \in DOMAIN modelPortfolios :
          totalPercentage(modelPortfolios[k].assets) = Rat(1001, 1000)
    /\ modelResponse # None
    /\ modelResponse[1].status = 400
    /\ ~Malformed(modelResponse[1].request)
    /\ totalPercentage(modelResponse[1].request.assets[1]) = Rat(1002, 1000)

---------------------------------------------------------------------------
(* Properties of the stored transactions *)

Outflows == {"BUY", "FEES", "CASH_WITHDRAWAL"}

Inflows == {"SELL", "DIVIDEND", "INTEREST", "CASH_DEPOSIT"}

(* C24: every stored row has an amount <= 0 for BUY, FEES and              *)
(* CASH_WITHDRAWAL and >= 0 for SELL, DIVIDEND, INTEREST and CASH_DEPOSIT, *)
(* and every stored BUY or SELL has a symbol, a quantity and a price.      *)
C24_SignInvariant ==
    \A k \in DOMAIN store :
        /\ store[k].type \in Outflows => store[k].amount <= 0
        /\ store[k].type \in Inflows => store[k].amount >= 0
        /\ store[k].type \in {"BUY", "SELL"} =>
               store[k].symbol # "" /\ store[k].quantity # None /\ store[k].price # None

---------------------------------------------------------------------------
(* Properties of the sub-period boundaries *)

FlowRows ==
    {k \in DOMAIN store :
        /\ store[k].type \in {"CASH_DEPOSIT", "CASH_WITHDRAWAL", "DIVIDEND", "INTEREST",
                               "FEES"}
        /\ startDate <= store[k].transactionDate
        /\ store[k].transactionDate <= endDate}

ExpectedBoundaries ==
    {startDate, endDate} \cup {store[k].transactionDate : k \in FlowRows}

(* C26: the boundaries of a call are, in increasing order and without      *)
(* repetition, start, end and the dates of the rows of the five cash-flow  *)
(* types dated in [start, end]; a BUY or SELL adds none; the loop runs     *)
(* once per adjacent pair; start = end without flows returns 0 without     *)
(* any sub-period.                                                         *)
C26_BoundarySet ==
    tpc \in {"loop", "done"} =>
        /\ {sortedDates[k] : k \in DOMAIN sortedDates} = ExpectedBoundaries
        /\ \A k \in DOMAIN sortedDates :
               k < Len(sortedDates) => sortedDates[k] < sortedDates[k + 1]
        /\ tpc = "done" =>
               loopI - 1 = (IF Len(sortedDates) >= 2 THEN Len(sortedDates) - 1 ELSE 0)
        /\ (tpc = "done" /\ startDate = endDate /\ FlowRows = {}) =>
               twr[1] = RInt(0) /\ loopI = 1

(* a call with one sub-period on a table with a trade dated strictly       *)
(* inside the range on a day that is no boundary, and two flows on one day *)
C26_Witness ==
    /\ tpc = "done"
    /\ Len(sortedDates) = 2
    /\ loopI = 2
    /\ Cardinality(FlowRows) = 2
    /\ \E k \in DOMAIN store :
          /\ store[k].type \in {"BUY", "SELL"}
          /\ startDate < store[k].transactionDate
          /\ store[k].transactionDate < endDate

(* a cash-flow row of amount 0 dated strictly between start and end *)
ZeroFlowInside(tx) ==
    /\ tx.type \in {"CASH_DEPOSIT", "CASH_WITHDRAWAL", "DIVIDEND", "INTEREST", "FEES"}
    /\ tx.amount = 0
    /\ startDate < tx.transactionDate
    /\ tx.transactionDate < endDate

WithoutZeroFlows == SelectSeq(store, LAMBDA tx : ~ZeroFlowInside(tx))

(* C27: the percentage returned for a table that holds cash-flow rows of   *)
(* amount 0 dated strictly between start and end is a percentage the call  *)
(* returns for the table without those rows.                               *)
C27_ZeroFlowNeutral ==
    (tpc = "done" /\ WithoutZeroFlows # store) =>
        twr[1] \in calculateTWR(WithoutZeroFlows, startDate, endDate)

---------------------------------------------------------------------------
(* Properties of a proposal as a whole *)

(* C28: the totalMarketValue of a proposal is the total its drift entries  *)
(* were computed from: every entry's currentWeight is its currentValue     *)
(* over that total (0 for a total that is not positive), also when a       *)
(* transaction is stored while the proposal is computed.                   *)
C28_ProposalSnapshot ==
    Proposed =>
        LET body == response[1].body
        IN  \A k \in DOMAIN body.driftAnalysis :
               body.driftAnalysis[k].currentWeight =
                   (IF body.totalMarketValue > 0
                      THEN Rat(body.driftAnalysis[k].currentValue, body.totalMarketValue)
                      ELSE RInt(0))

SignedValue(trade) ==
    IF trade.action = "BUY" THEN trade.tradeValue ELSE RSub(RInt(0), trade.tradeValue)

RECURSIVE SignedSum(_)
SignedSum(trades) ==
    IF trades = <<>> THEN RInt(0)
    ELSE RAdd(SignedValue(Head(trades)), SignedSum(Tail(trades)))

RECURSIVE CurrentValues(_)
CurrentValues(entries) ==
    IF entries = <<>> THEN 0 ELSE Head(entries).currentValue + CurrentValues(Tail(entries))

RECURSIVE ValueOutside(_, _)
ValueOutside(assetValues, syms) ==
    IF syms = {} THEN 0
    ELSE LET sym == CHOOSE x \in syms : TRUE
         IN  assetValues[sym] + ValueOutside(assetValues, syms \ {sym})

ModelSymbols == {portfolio[1].modelPortfolio[1][k].symbol :
                    k \in DOMAIN portfolio[1].modelPortfolio[1]}

(* C29: for a model whose targets sum to 1, the trades of a proposal       *)
(* before the filter, BUY counted positive and SELL negative, sum to       *)
(* totalMarketValue minus the current values of the model's symbols, which *)
(* is the cash plus the value of the held symbols outside the model; the   *)
(* entries and the trades name the model's symbols only.                   *)
C29_SignedSumOfTrades ==
    Proposed =>
        LET body == response[1].body
            d == body.driftAnalysis
            unfiltered == [k \in DOMAIN d |-> Trade(d[k], body.totalMarketValue)]
        IN  /\ SignedSum(unfiltered)
                  = RInt(body.totalMarketValue - CurrentValues(d))
            /\ \E rows \in FindMany(store, None) :
                  LET mv == MarketValueOf(Replay(rows), Today)
                  IN  body.totalMarketValue - CurrentValues(d)
                          = Replay(rows).cashBalance
                            + ValueOutside(mv.assetValues,
                                           DOMAIN mv.assetValues \ ModelSymbols)
            /\ {d[k].symbol : k \in DOMAIN d} = ModelSymbols
            /\ \A j \in DOMAIN body.rebalancingTrades :
                  /\ body.rebalancingTrades[j].symbol \in ModelSymbols
                  /\ \E k \in DOMAIN d : body.rebalancingTrades[j] = unfiltered[k]

(* a proposal for a one-stock model while the other stock is held and cash *)
(* is left: the trades do not sum to zero                                  *)
C29_Witness ==
    /\ Proposed
    /\ Len(response[1].body.driftAnalysis) = 1
    /\ response[1].body.driftAnalysis[1].currentValue > 0
    /\ \E k \in DOMAIN store : store[k].type = "BUY" /\ store[k].symbol \notin ModelSymbols
    /\ \E k \in DOMAIN store : store[k].type = "CASH_DEPOSIT"
    /\ response[1].body.rebalancingTrades # <<>>

---------------------------------------------------------------------------
(* Properties of the holdings' cost fields *)

CostConsistent(h) == h.totalCost = RMul(RInt(h.quantity), h.averageCost)

(* C30: at every point of the fold, each holding has totalCost equal to    *)
(* quantity times averageCost, and so has every holding returned.          *)
C30_TotalCostConsistent ==
    /\ \A s \in DOMAIN holdings : CostConsistent(holdings[s])
    /\ pc = "done" => \A s \in DOMAIN result[1].assets : CostConsistent(result[1].assets[s])

(* the loop has just applied a sale to a holding built by two purchases,   *)
(* and part of it is left                                                  *)
C30_Witness ==
    /\ pc = "fold" /\ idx = 4
    /\ txs[1].type = "BUY" /\ txs[2].type = "BUY" /\ txs[3].type = "SELL"
    /\ txs[3].symbol \in DOMAIN holdings
    /\ holdings[txs[3].symbol].quantity > 0
    /\ holdings[txs[3].symbol].totalCost # RInt(0)

=============================================================================
